---- MODULE Spec2Model ----
(***************************************************************************)
(* State-machine model of strato-db's event-sourcing core (ESDB) and of    *)
(* the SQLite wrapper's withTransaction.                                   *)
(*                                                                         *)
(* ESDB (src/unnamed/part_000, lines 244-700) is modelled at the           *)
(* granularity of its await points: every await of a queue or database     *)
(* call is a place where the other tasks of the process may run.           *)
(* EventQueue, async-redux and SQLite are not part of the sources; they    *)
(* are modelled from their contracts.                                      *)
(***************************************************************************)
EXTENDS Integers, Sequences, FiniteSets, TLC

\* ------------------------------------------------------------------ bounds
MaxEvents == 2
NumClients == 2
MaxRuns == 2
MaxFail == 1
MaxCtl == 2
MaxReopen == 1
MaxTx == 2
MaxWrites == 2
MaxReads == 2
MaxCloses == 2
MaxCommits == 2
MaxVals == 2

Versions == 1..MaxEvents
ClientIds == 1..NumClients
RunIds == 1..MaxRuns
TxIds == 1..MaxTx
Keys == {43, 44}
StmtIds == {1, 2}
Conns == {1, 2}

\* --------------------------------------------------------- values, records
NoDoc == -1
Undefined == -1
NoError == <<>>
NoRows == {-1}
NoTable == {-2}
SqlError == {-3}
NoResult == <<>>

HasError(event) == DOMAIN event.error # {}

Change(op, v, err) == [op |-> op, v |-> v, err |-> err]

Row(type) == [type |-> type, result |-> NoResult, error |-> NoError]

Event(v, row) == [v |-> v, type |-> row.type, result |-> row.result, error |-> row.error]

NoEvent == [v |-> 0, type |-> "", result |-> NoResult, error |-> NoError]

Without(f, k) == [n \in (DOMAIN f) \ {k} |-> f[n]]

\* ------------------------------------------- the registered models (input)
\* Two user models "a" and "b", registered in this order, each with a
\* preprocessor and a reducer, "b" with a deriver; metadata is appended last.
UserModels == <<"a", "b">>
preprocNames == UserModels
reducerNames == UserModels \o <<"metadata">>
deriverNames == <<"b">>

\* The event types the callers use, and what the user hooks do on each.
EventTypes == {"inc", "nop", "rw", "pa", "pb", "ra", "rb", "rab", "chv", "noty", "crash"}

\* one type of each class: handled without error, with an error, with a throw
CoreTypes == {"inc", "ra", "crash"}

\* models[name].preprocessor({event}): no new event, or a new event.
\*   kind "none": returns undefined;  kind "event": returns [v, type, err]
UserPreprocessor(name, event) ==
    CASE name = "a" /\ event.type = "pa" ->
            [kind |-> "event", v |-> event.v, type |-> event.type, err |-> "bad"]
      [] name = "b" /\ event.type \in {"pa", "pb"} ->
            [kind |-> "event", v |-> event.v, type |-> event.type, err |-> "bad"]
      [] name = "b" /\ event.type = "chv" ->
            [kind |-> "event", v |-> event.v + 1, type |-> event.type, err |-> ""]
      [] name = "a" /\ event.type = "noty" ->
            [kind |-> "event", v |-> event.v, type |-> "", err |-> ""]
      [] name = "a" /\ event.type = "rw" ->
            [kind |-> "event", v |-> event.v, type |-> "inc", err |-> ""]
      [] OTHER -> [kind |-> "none", v |-> 0, type |-> "", err |-> ""]

\* The hook is handed the event object itself and may assign to its fields:
\* the v of that object when the hook returns.
UserPreprocessorMutates(name, event) ==
    IF name = "a" /\ event.type = "mut" THEN event.v + 1 ELSE event.v

\* the types above, without the throwing one, and one whose preprocessor
\* assigns to event.v and returns nothing
PreTypes == (EventTypes \ {"crash"}) \cup {"mut"}

\* A hook that throws makes the reducer transaction, hence redux.dispatch, reject.
UserPreprocessorThrows(name, event) == name = "a" /\ event.type = "crash"

\* models[name].reducer(model, event)
UserReducer(name, event) ==
    CASE name = "a" /\ event.type \in {"ra", "rab"} -> Change("error", 0, "rerr")
      [] name = "b" /\ event.type \in {"rb", "rab"} -> Change("error", 0, "rerr")
      [] name = "b" /\ event.type = "nop" -> Change("false", 0, "")
      [] OTHER -> Change("ins", event.v, "")

\* ------------------------------------------------------- metadata.reducer
metadata_reducer_refuses(versionDoc, v) == Change("error", versionDoc, "version")

metadata_reducer(versionDoc, v) ==
    LET currV == IF versionDoc # NoDoc THEN versionDoc ELSE -1
    IN  IF v > currV THEN Change("set", v, "")
        ELSE Change("error", currV, "version")

\* ------------------------------------------------------------ preprocessor
\* The loop over preprocNames from position i on; ran is the sequence of
\* preprocessors called so far.
\* the test `if (newEvent.error)`
StopsOnError_never(newEvent) == FALSE

StopsOnError(newEvent) == newEvent.err # ""

RECURSIVE PreprocFrom(_, _, _)
PreprocFrom(i, event, ran) ==
    IF i > Len(preprocNames) THEN [event |-> event, ran |-> ran]
    ELSE
      LET name == preprocNames[i]
          newEvent == UserPreprocessor(name, event)
          ran2 == Append(ran, name)
          mutated == [event EXCEPT !.v = UserPreprocessorMutates(name, event)]
      IN  IF newEvent.kind = "none" THEN PreprocFrom(i + 1, mutated, ran2)
          ELSE IF StopsOnError(newEvent) THEN
                 [event |-> [event EXCEPT !.error = [k \in {name} |-> newEvent.err]],
                  ran |-> ran2]
          ELSE IF newEvent.v # event.v THEN
                 [event |-> [event EXCEPT !.error = [k \in {"_preprocess"} |-> "version"]],
                  ran |-> ran2]
          ELSE IF newEvent.type = "" THEN
                 [event |-> [event EXCEPT !.error = [k \in {"_preprocess"} |-> "type"]],
                  ran |-> ran2]
          ELSE PreprocFrom(i + 1, [event EXCEPT !.type = newEvent.type], ran2)

preprocessor(event) == PreprocFrom(1, event, <<>>)

\* ------------------------------------------------ combineReducers, reducer
modelReducer(versionDoc, event) ==
    [n \in {reducerNames[i] : i \in 1..Len(reducerNames)} |->
        IF n = "metadata" THEN metadata_reducer(versionDoc, event.v)
        ELSE UserReducer(n, event)]

Erroring(result) == {n \in DOMAIN result : result[n].op = "error"}

\* the result of an event with a reducer error: `{metadata: result.metadata}`
ErrorResult_keepOthers(result) == [n \in (DOMAIN result) \ Erroring(result) |-> result[n]]

ErrorResult(result) == [k \in {"metadata"} |-> result["metadata"]]

\* The body of reducer(state, event): [event, ran, reduced]
\*   ran: the preprocessors called; reduced: the model reducers called.
reducer(versionDoc, eventIn) ==
    LET pre == preprocessor(eventIn)
        event == pre.event
    IN  IF HasError(event) THEN
          [event |-> [event EXCEPT
                        !.result = [k \in {"metadata"} |-> metadata_reducer(versionDoc, event.v)]],
           ran |-> pre.ran, reduced |-> {"metadata"}]
        ELSE
          LET result == modelReducer(versionDoc, event)
          IN  IF Erroring(result) # {} THEN
                [event |-> [event EXCEPT
                              !.result = ErrorResult(result),
                              !.error = [n \in Erroring(result) |-> result[n].err]],
                 ran |-> pre.ran, reduced |-> DOMAIN result]
              ELSE
                [event |-> [event EXCEPT
                              !.result = [n \in {m \in DOMAIN result : result[m].op # "false"}
                                            |-> result[n]]],
                 ran |-> pre.ran, reduced |-> DOMAIN result]

reducerThrows(event) ==
    \E i \in 1..Len(preprocNames) : UserPreprocessorThrows(preprocNames[i], event)


\* =================================================================== state
VARIABLES
    queue,            \* EventQueue rows, queue[v] = [type, result, error]
    metadataVersion,  \* metadata row {id: 'version', v}; NoDoc when absent
    store,            \* store[name][v]: times event v's change was applied to model name
    _waitingFor,      \* waiter registry: v -> id of the waiter object, 0 when absent
    _maxWaitingFor,
    minVersion,
    _isPolling,
    _reallyStop,
    stopP,            \* the promise the last stopPolling() returned: "none", "pending", "resolved"
    _waitingP,        \* TRUE when this._waitingP holds a promise
    _applyingP,       \* 0 (null), or the run whose handleResult set it
    getVersionP,      \* TRUE while a version read is in flight
    _reduxInited,
    runs,             \* invocations of _waitForEvent
    applies,          \* invocations of handleResult / applyEvent
    clients,          \* callers of dispatch / handledVersion
    waiter,           \* state of the promise created by each caller's handledVersion
    sweeping,         \* queue.get(v) reads started by triggerWaitingEvent's sweep
    stragglers,       \* applyChanges calls still running after Promise.all rejected
    log,              \* what happened to the event handled last: reducer run, apply, emissions
    hasErrorListener, \* listenerCount('error') > 0
    fails, ctl, reopens,
    foo,              \* SQLite: table foo, foo[hi] = the call whose body wrote the row, 0 when absent
    snapshot,         \* SQLite: table foo as it was at BEGIN
    txs,              \* SQLite: the withTransaction calls
    txQueue,          \* SQLite: calls waiting for the write lock, in call order
    writeLock,        \* SQLite: the call whose transaction is open, 0 when none
    emitted,          \* SQLite: the events emitted on the db handle
    seen,             \* SQLite: what the last `SELECT * from foo` returned
    reads,
    sdb,              \* Statement: the connection the statements were prepared on
    tbl,              \* Statement: the rows of the table in that connection's database
    stmts,            \* Statement: the prepared statements
    closedWith,       \* Statement: what each statement would have returned at the last close()
    fileChange,       \* dataVersion: the change counter of the database file
    conn,             \* dataVersion: each connection's cached change counter and data version
    commits,          \* dataVersion: the writes each connection committed
    dvLast,           \* dataVersion: what each connection's last dataVersion() returned
    sqlIn,            \* sql``: the literal chunks and the interpolated values so far
    sqlOut,           \* sql``: the text and the binds built so far
    preIn,            \* reducer(state, event): the event and the version document it is called with
    preOut            \* reducer(state, event): what it returned

vars == <<queue, metadataVersion, store, _waitingFor, _maxWaitingFor, minVersion,
          _isPolling, _reallyStop, stopP, _waitingP, _applyingP, getVersionP,
          _reduxInited, runs, applies, clients, waiter, sweeping, stragglers, log,
          hasErrorListener, fails, ctl, reopens,
          foo, snapshot, txs, txQueue, writeLock, emitted, seen, reads,
          sdb, tbl, stmts, closedWith, fileChange, conn, commits, dvLast,
          sqlIn, sqlOut, preIn, preOut>>

esdbVars == <<queue, metadataVersion, store, _waitingFor, _maxWaitingFor, minVersion,
              _isPolling, _reallyStop, stopP, _waitingP, _applyingP, getVersionP,
              _reduxInited, runs, applies, clients, waiter, sweeping, stragglers, log,
              hasErrorListener, fails, ctl, reopens>>
txVars == <<foo, snapshot, txs, txQueue, writeLock, emitted, seen, reads>>
stVars == <<sdb, tbl, stmts, closedWith>>
dvVars == <<fileChange, conn, commits, dvLast>>
sqlVars == <<sqlIn, sqlOut>>
preVars == <<preIn, preOut>>
sqliteVars == <<txVars, stVars, dvVars, sqlVars, preVars>>
notTx == <<esdbVars, stVars, dvVars, sqlVars, preVars>>
notSt == <<esdbVars, txVars, dvVars, sqlVars, preVars>>
notDv == <<esdbVars, txVars, stVars, sqlVars, preVars>>
notSql == <<esdbVars, txVars, stVars, dvVars, preVars>>
notPre == <<esdbVars, txVars, stVars, dvVars, sqlVars>>

dbVars == <<queue, metadataVersion, store>>
budgetVars == <<fails, ctl, reopens>>

NoRun == [pc |-> "none", chained |-> FALSE, lastV |-> 0, afterV |-> 0, once |-> FALSE,
          event |-> NoEvent, awaits |-> 0, ret |-> 0]

NoApply == [pc |-> "none", event |-> NoEvent, metadata |-> Change("false", 0, ""),
            pending |-> {}, failed |-> FALSE]

NoTx == [pc |-> "idle", writes |-> 0, wrote |-> {}, during |-> 0,
         thrown |-> "", out |-> "", error |-> ""]

NoDB == [created |-> FALSE, file |-> FALSE, isOpen |-> FALSE, opens |-> 0, closes |-> 0]

NoStmt == [prepared |-> FALSE, handle |-> 0, rows |-> NoRows]

NoCall == [v |-> 0, at |-> 0]

NoCallYet == [event |-> NoEvent, versionDoc |-> NoDoc]

NoClient == [pc |-> "idle", v |-> 0, ver |-> 0, p |-> 0, out |-> ""]

Entry(k, v) == [k |-> k, v |-> v, ran |-> <<>>, reduced |-> {}]

\* getVersion(): the value the version read yields
getVersion == IF metadataVersion # NoDoc THEN metadataVersion ELSE 0

\* ------------------------------------------------------------ startPolling
FreeRuns == {r \in RunIds : runs[r].pc = "none"}
FirstFree == CHOOSE r \in FreeRuns : \A q \in FreeRuns : r <= q

\* the test `if (!this._waitingP)`
NoWaitingP_ignored == TRUE

NoWaitingP == ~_waitingP

\* A call of _waitForEvent() runs up to its first await: it calls getVersion().
NewRun(chained) == [NoRun EXCEPT !.pc = "gv", !.chained = chained]

\* startPolling(wantVersion), wantVersion = 0 standing for false / undefined;
\* rs is the runs value the call starts from.
startPolling(wantVersion, rs) ==
    /\ minVersion' = IF wantVersion # 0 /\ wantVersion > minVersion
                     THEN wantVersion ELSE minVersion
    /\ _isPolling' = IF wantVersion = 0 THEN TRUE ELSE _isPolling
    /\ IF NoWaitingP /\ FreeRuns # {}
       THEN /\ _waitingP' = TRUE
            /\ runs' = [rs EXCEPT ![FirstFree] = NewRun(FALSE)]
            /\ getVersionP' = TRUE
       ELSE /\ runs' = rs
            /\ UNCHANGED <<_waitingP, getVersionP>>

\* -------------------------------------------------------------------- Init
\* The state after `new ESDB({db, queue, models})` on an empty database: the
\* constructor ends with checkForEvents(), i.e. startPolling(1).
Init ==
    /\ queue = <<>>
    /\ metadataVersion = NoDoc
    /\ store = [n \in {"a", "b"} |-> [v \in Versions |-> 0]]
    /\ _waitingFor = [v \in Versions |-> 0]
    /\ _maxWaitingFor = 0
    /\ minVersion = 1
    /\ _isPolling = FALSE
    /\ _reallyStop = FALSE
    /\ stopP = "none"
    /\ _waitingP = TRUE
    /\ _applyingP = 0
    /\ getVersionP = TRUE
    /\ _reduxInited = FALSE
    /\ runs = [r \in RunIds |-> IF r = 1 THEN NewRun(FALSE) ELSE NoRun]
    /\ applies = [a \in RunIds |-> NoApply]
    /\ clients = [c \in ClientIds |-> NoClient]
    /\ waiter = [c \in ClientIds |-> "none"]
    /\ sweeping = {}
    /\ stragglers = {}
    /\ log = <<>>
    /\ hasErrorListener \in BOOLEAN
    /\ fails = 0
    /\ ctl = 0
    /\ reopens = 0
    /\ foo = [hi \in Keys |-> 0]
    /\ snapshot = [hi \in Keys |-> 0]
    /\ txs = [t \in TxIds |-> NoTx]
    /\ txQueue = <<>>
    /\ writeLock = 0
    /\ emitted = <<>>
    /\ seen = [hi \in Keys |-> 0]
    /\ reads = 0
    /\ sdb = NoDB
    /\ tbl = NoTable
    /\ stmts = [st \in StmtIds |-> NoStmt]
    /\ closedWith = [st \in StmtIds |-> NoRows]
    /\ fileChange = 0
    /\ conn = [c \in Conns |-> [cached |-> 0, dv |-> 1]]
    /\ commits = [c \in Conns |-> 0]
    /\ dvLast = [c \in Conns |-> NoCall]
    /\ sqlIn = [strings |-> <<>>, values |-> <<>>]
    /\ sqlOut = [out |-> <<>>, vars |-> <<>>]
    /\ preIn = NoCallYet
    /\ preOut = NoCallYet

\* -------------------------------------------------------------- getVersion
\* The version read resolves: every caller that joined getVersionP gets the value.
GetVersionResolve ==
    /\ getVersionP
    /\ getVersionP' = FALSE
    /\ runs' = [r \in RunIds |->
                  IF runs[r].pc = "gv"
                  THEN [runs[r] EXCEPT !.pc = "gvd", !.afterV = getVersion]
                  ELSE runs[r]]
    /\ clients' = [c \in ClientIds |->
                  IF clients[c].pc = "gv"
                  THEN [clients[c] EXCEPT !.pc = "gvd", !.ver = getVersion]
                  ELSE clients[c]]
    /\ UNCHANGED <<dbVars, _waitingFor, _maxWaitingFor, minVersion, _isPolling,
                   _reallyStop, stopP, _waitingP, _applyingP, _reduxInited, applies, waiter,
                   sweeping, stragglers, log, hasErrorListener, sqliteVars, budgetVars>>


\* ----------------------------------------------------------- EventQueue
\* queue.getNext(afterV, once): the next event with v > afterV, if any.
getNext(afterV) ==
    {v \in 1..Len(queue) : v > afterV /\ \A w \in 1..Len(queue) : w > afterV => v <= w}

\* queue.set(event): the row's type, result and error are replaced.
queue_set(event) ==
    [queue EXCEPT ![event.v] = [type |-> event.type, result |-> event.result,
                                error |-> event.error]]

\* ------------------------------------------------------------ _waitForEvent
\* `await this.getVersion()` returned: !this._isPolling is evaluated and
\* queue.getNext(version, once) is called.
RunGetNext(r) ==
    /\ runs[r].pc = "gvd"
    /\ runs' = [runs EXCEPT ![r].pc = "getNext", ![r].once = ~_isPolling]
    /\ UNCHANGED <<dbVars, _waitingFor, _maxWaitingFor, minVersion, _isPolling,
                   _reallyStop, stopP, _waitingP, _applyingP, getVersionP, _reduxInited,
                   applies, clients, waiter, sweeping, stragglers, log,
                   hasErrorListener, sqliteVars, budgetVars>>

\* getNext resolves with an event: lastV is set, the store is initialised on
\* the first event, and redux.dispatch(event) is called.
RunGotEvent(r) ==
    /\ runs[r].pc = "getNext"
    /\ \E v \in getNext(runs[r].afterV) :
         runs' = [runs EXCEPT ![r].pc = "dispatch", ![r].lastV = v,
                              ![r].event = Event(v, queue[v])]
    /\ _reduxInited' = TRUE
    /\ UNCHANGED <<dbVars, _waitingFor, _maxWaitingFor, minVersion, _isPolling,
                   _reallyStop, stopP, _waitingP, _applyingP, getVersionP,
                   applies, clients, waiter, sweeping, stragglers, log,
                   hasErrorListener, sqliteVars, budgetVars>>

\* getNext(afterV, once = true) resolves with nothing: the run returns lastV.
\* With once = false getNext keeps waiting for the next event.
RunNoEvent(r) ==
    /\ runs[r].pc = "getNext"
    /\ getNext(runs[r].afterV) = {}
    /\ runs[r].once
    /\ runs' = [runs EXCEPT ![r].pc = "ret", ![r].ret = runs[r].lastV]
    /\ UNCHANGED <<dbVars, _waitingFor, _maxWaitingFor, minVersion, _isPolling,
                   _reallyStop, stopP, _waitingP, _applyingP, getVersionP, _reduxInited,
                   applies, clients, waiter, sweeping, stragglers, log,
                   hasErrorListener, sqliteVars, budgetVars>>

FreeApplies == {a \in RunIds : applies[a].pc = "none"}
FirstFreeApply == CHOOSE a \in FreeApplies : \A q \in FreeApplies : a <= q

\* handleResult(event) up to its first await, and applyEvent up to its first
\* await: metadata is taken out of the result, queue.set(event) is called,
\* and _applyingP holds the apply.
HandleResultStart(event) ==
    /\ FreeApplies # {}
    /\ applies' = [applies EXCEPT ![FirstFreeApply] =
                     [pc |-> "qset",
                      event |-> [event EXCEPT !.result = Without(event.result, "metadata")],
                      metadata |-> event.result["metadata"],
                      pending |-> {}, failed |-> FALSE]]
    /\ _applyingP' = FirstFreeApply

\* After redux.dispatch(event) the loop does
\* `if (this._applyingP) await this._applyingP`.
AfterDispatch_noAwait(a) == [pc |-> "stopcheck", awaits |-> 0]

AfterDispatch(a) == [pc |-> "awaitApply", awaits |-> a]

\* redux.dispatch(event): the reducer runs in its transaction; the store's
\* listeners (handleResult) are then called synchronously.
RunReduce(r) ==
    /\ runs[r].pc = "dispatch"
    /\ ~reducerThrows(runs[r].event)
    /\ LET red == reducer(metadataVersion, runs[r].event)
       IN  /\ HandleResultStart(red.event)
           /\ log' = <<[k |-> "reducer", v |-> red.event.v,
                        ran |-> red.ran, reduced |-> red.reduced]>>
    /\ runs' = [runs EXCEPT ![r].pc = AfterDispatch(FirstFreeApply).pc,
                            ![r].awaits = AfterDispatch(FirstFreeApply).awaits]
    /\ UNCHANGED <<dbVars, _waitingFor, _maxWaitingFor, minVersion, _isPolling,
                   _reallyStop, stopP, _waitingP, getVersionP, _reduxInited,
                   clients, waiter, sweeping, stragglers, hasErrorListener, sqliteVars,
                   budgetVars>>

\* redux.dispatch(event) rejects: the catch block waits for metadata.reducer.
RunReduceThrows(r) ==
    /\ runs[r].pc = "dispatch"
    /\ reducerThrows(runs[r].event)
    /\ runs' = [runs EXCEPT ![r].pc = "crashed"]
    /\ log' = <<Entry("reducer", runs[r].event.v)>>
    /\ UNCHANGED <<dbVars, _waitingFor, _maxWaitingFor, minVersion, _isPolling,
                   _reallyStop, stopP, _waitingP, _applyingP, getVersionP, _reduxInited,
                   applies, clients, waiter, sweeping, stragglers, hasErrorListener, sqliteVars,
                   budgetVars>>

\* the event the catch block hands to handleResult:
\* {...event, error: {...event.error, _redux: {message, stack}}, result: {metadata}}
Synthesized_noError(event, metadata) ==
    [event EXCEPT !.result = [k \in {"metadata"} |-> metadata]]

Synthesized(event, metadata) ==
    [event EXCEPT
       !.error = [k \in (DOMAIN event.error) \cup {"_redux"} |->
                    IF k = "_redux" THEN "thrown" ELSE event.error[k]],
       !.result = [k \in {"metadata"} |-> metadata]]

\* the catch block: metadata.reducer, then `await this.handleResult(...)` on
\* the synthesized event
RunCatch(r) ==
    /\ runs[r].pc = "crashed"
    /\ LET event == runs[r].event
           metadata == metadata_reducer(metadataVersion, event.v)
       IN  HandleResultStart(Synthesized(event, metadata))
    /\ runs' = [runs EXCEPT ![r].pc = "awaitApply", ![r].awaits = FirstFreeApply]
    /\ UNCHANGED <<dbVars, _waitingFor, _maxWaitingFor, minVersion, _isPolling,
                   _reallyStop, stopP, _waitingP, getVersionP, _reduxInited,
                   clients, waiter, sweeping, stragglers, log, hasErrorListener, sqliteVars,
                   budgetVars>>

\* ---------------------------------------------------------------- applyEvent
\* A write of applyEvent may fail (the database has an issue, or set refuses
\* the object); MaxFail bounds how often.
MayFail == fails < MaxFail

\* applyEvent threw: handleResult's .catch logs the error and _applyingP settles.
ApplyThrows(a, rest) ==
    /\ applies' = [applies EXCEPT ![a].pc = "applied", ![a].failed = TRUE, ![a].pending = {}]
    /\ stragglers' = stragglers \cup {[v |-> applies[a].event.v, name |-> n] : n \in rest}
    /\ fails' = fails + 1
    /\ log' = Append(log, Entry("applyfail", applies[a].event.v))

\* what applyEvent does after `await queue.set(event)`: the applyChanges of
\* the models in the result, or the metadata write when there is none
AfterQueueSet_metadata(names) == "meta"

AfterQueueSet(names) == IF names = {} THEN "meta" ELSE "models"

\* `await queue.set(event)`; then every model's applyChanges is called at once
\* (Promise.all), or the metadata write when the result holds no model.
ApplyQueueSet(a) ==
    /\ applies[a].pc = "qset"
    /\ queue' = queue_set(applies[a].event)
    /\ LET names == DOMAIN applies[a].event.result
       IN  applies' = [applies EXCEPT ![a].pc = AfterQueueSet(names),
                                      ![a].pending = names]
    /\ UNCHANGED <<metadataVersion, store, _waitingFor, _maxWaitingFor, minVersion,
                   _isPolling, _reallyStop, stopP, _waitingP, _applyingP, getVersionP,
                   _reduxInited, runs, clients, waiter, sweeping, stragglers, log,
                   hasErrorListener, sqliteVars, budgetVars>>

ApplyQueueSetFails(a) ==
    /\ applies[a].pc = "qset"
    /\ MayFail
    /\ ApplyThrows(a, {})
    /\ UNCHANGED <<dbVars, _waitingFor, _maxWaitingFor, minVersion,
                   _isPolling, _reallyStop, stopP, _waitingP, _applyingP, getVersionP,
                   _reduxInited, runs, clients, waiter, sweeping, hasErrorListener, sqliteVars,
                   ctl, reopens>>

\* store[name].applyChanges(change)
applyChanges(name, v) == [store EXCEPT ![name][v] = @ + 1]

\* one model's applyChanges completes; after the last one the metadata write starts
ApplyModel(a, name) ==
    /\ applies[a].pc = "models"
    /\ name \in applies[a].pending
    /\ store' = applyChanges(name, applies[a].event.v)
    /\ applies' = [applies EXCEPT ![a].pending = @ \ {name},
                                  ![a].pc = IF applies[a].pending = {name}
                                            THEN "meta" ELSE "models"]
    /\ UNCHANGED <<queue, metadataVersion, _waitingFor, _maxWaitingFor, minVersion,
                   _isPolling, _reallyStop, stopP, _waitingP, _applyingP, getVersionP,
                   _reduxInited, runs, clients, waiter, sweeping, stragglers, log,
                   hasErrorListener, sqliteVars, budgetVars>>

\* one model's applyChanges rejects: Promise.all rejects at once, the other
\* applyChanges calls are still running
ApplyModelFails(a, name) ==
    /\ applies[a].pc = "models"
    /\ name \in applies[a].pending
    /\ MayFail
    /\ ApplyThrows(a, applies[a].pending \ {name})
    /\ UNCHANGED <<dbVars, _waitingFor, _maxWaitingFor, minVersion,
                   _isPolling, _reallyStop, stopP, _waitingP, _applyingP, getVersionP,
                   _reduxInited, runs, clients, waiter, sweeping, hasErrorListener, sqliteVars,
                   ctl, reopens>>

\* an applyChanges left running by a rejected Promise.all completes
StragglerApply(s) ==
    /\ s \in stragglers
    /\ store' = applyChanges(s.name, s.v)
    /\ stragglers' = stragglers \ {s}
    /\ UNCHANGED <<queue, metadataVersion, _waitingFor, _maxWaitingFor, minVersion,
                   _isPolling, _reallyStop, stopP, _waitingP, _applyingP, getVersionP,
                   _reduxInited, runs, applies, clients, waiter, sweeping, log,
                   hasErrorListener, sqliteVars, budgetVars>>

\* store.metadata.applyChanges(metadata): {set: [{id: 'version', v}]} writes the
\* version; {error} changes nothing.
metadata_applyChanges(change) ==
    IF change.op = "set" THEN change.v ELSE metadataVersion

ApplyDone(a) ==
    /\ applies' = [applies EXCEPT ![a].pc = "applied", ![a].failed = FALSE]
    /\ log' = Append(log, Entry("applied", applies[a].event.v))

\* the metadata write completes; then the derivers are called
ApplyMetadata(a) ==
    /\ applies[a].pc = "meta"
    /\ metadataVersion' = metadata_applyChanges(applies[a].metadata)
    /\ IF Len(deriverNames) > 0
       THEN /\ applies' = [applies EXCEPT ![a].pc = "derive"]
            /\ log' = log
       ELSE ApplyDone(a)
    /\ UNCHANGED <<queue, store, _waitingFor, _maxWaitingFor, minVersion,
                   _isPolling, _reallyStop, stopP, _waitingP, _applyingP, getVersionP,
                   _reduxInited, runs, clients, waiter, sweeping, stragglers,
                   hasErrorListener, sqliteVars, budgetVars>>

ApplyMetadataFails(a) ==
    /\ applies[a].pc = "meta"
    /\ MayFail
    /\ ApplyThrows(a, {})
    /\ UNCHANGED <<dbVars, _waitingFor, _maxWaitingFor, minVersion,
                   _isPolling, _reallyStop, stopP, _waitingP, _applyingP, getVersionP,
                   _reduxInited, runs, clients, waiter, sweeping, hasErrorListener, sqliteVars,
                   ctl, reopens>>

\* the derivers (Promise.all over deriverNames) complete
ApplyDerive(a) ==
    /\ applies[a].pc = "derive"
    /\ ApplyDone(a)
    /\ UNCHANGED <<dbVars, _waitingFor, _maxWaitingFor, minVersion,
                   _isPolling, _reallyStop, stopP, _waitingP, _applyingP, getVersionP,
                   _reduxInited, runs, clients, waiter, sweeping, stragglers,
                   hasErrorListener, sqliteVars, budgetVars>>

ApplyDeriveFails(a) ==
    /\ applies[a].pc = "derive"
    /\ MayFail
    /\ ApplyThrows(a, {})
    /\ UNCHANGED <<dbVars, _waitingFor, _maxWaitingFor, minVersion,
                   _isPolling, _reallyStop, stopP, _waitingP, _applyingP, getVersionP,
                   _reduxInited, runs, clients, waiter, sweeping, hasErrorListener, sqliteVars,
                   ctl, reopens>>

\* -------------------------------------------------- handleResult, waiters
\* o.resolve(event) / o.reject(event): settling a settled promise changes nothing
Settle(w, o, rejects) ==
    [w EXCEPT ![o] = IF @ = "pending" THEN (IF rejects THEN "rejected" ELSE "resolved") ELSE @]

SettleEntry(v, rejects) == Entry(IF rejects THEN "reject" ELSE "resolve", v)

\* what handleResult emits after the apply, in order
Emits_handledFirst(event) ==
    <<Entry("handled", event.v)>> \o
    (IF HasError(event) THEN <<Entry("error", event.v)>> ELSE <<Entry("result", event.v)>>)

Emits(event) ==
    (IF HasError(event)
     THEN (IF hasErrorListener THEN <<Entry("error", event.v)>> ELSE <<>>)
     ELSE <<Entry("result", event.v)>>)
    \o <<Entry("handled", event.v)>>

\* the test `if (event.v >= this._maxWaitingFor)` of triggerWaitingEvent
Sweeps_never(event) == FALSE

Sweeps(event) == event.v >= _maxWaitingFor

\* triggerWaitingEvent(event)
triggerWaitingEvent(event) ==
    LET o == _waitingFor[event.v]
        rest == {w \in Versions : w # event.v /\ _waitingFor[w] # 0}
    IN  /\ waiter' = IF o # 0 THEN Settle(waiter, o, HasError(event)) ELSE waiter
        /\ log' = log \o Emits(event) \o
                  (IF o # 0 THEN <<SettleEntry(event.v, HasError(event))>> ELSE <<>>)
        /\ IF Sweeps(event)
           THEN /\ sweeping' = sweeping \cup {[v |-> w, o |-> _waitingFor[w]] : w \in rest}
                /\ _waitingFor' = [w \in Versions |-> 0]
           ELSE /\ sweeping' = sweeping
                /\ _waitingFor' = [_waitingFor EXCEPT ![event.v] = 0]

\* handleResult after `await this._applyingP`: _applyingP = null, the
\* emissions, triggerWaitingEvent; all synchronous.
HandleResultRest(a) ==
    /\ applies[a].pc = "applied"
    /\ _applyingP' = 0
    /\ triggerWaitingEvent(applies[a].event)
    /\ applies' = [applies EXCEPT ![a] = NoApply]
    /\ UNCHANGED <<dbVars, _maxWaitingFor, minVersion, _isPolling, _reallyStop, stopP,
                   _waitingP, getVersionP, _reduxInited, runs, clients, stragglers,
                   hasErrorListener, sqliteVars, budgetVars>>

\* a queue.get(v) of the sweep resolves: its waiter is settled with that event
SweepResolve(s) ==
    /\ s \in sweeping
    /\ sweeping' = sweeping \ {s}
    /\ LET rejects == HasError(queue[s.v])
       IN  /\ waiter' = Settle(waiter, s.o, rejects)
           /\ log' = Append(log, SettleEntry(s.v, rejects))
    /\ UNCHANGED <<dbVars, _waitingFor, _maxWaitingFor, minVersion, _isPolling,
                   _reallyStop, stopP, _waitingP, _applyingP, getVersionP, _reduxInited,
                   runs, applies, clients, stragglers, hasErrorListener, sqliteVars, budgetVars>>

\* The apply the loop waits for has settled and handleResult has finished.
\* The end of the loop body: `if (this._reallyStop)` returns undefined,
\* otherwise the loop goes round and calls getVersion().
RunStopCheck(r) ==
    /\ \/ runs[r].pc = "stopcheck"
       \/ runs[r].pc = "awaitApply" /\ applies[runs[r].awaits].pc = "none"
    /\ IF _reallyStop
       THEN /\ _reallyStop' = FALSE
            /\ runs' = [runs EXCEPT ![r].pc = "ret", ![r].ret = Undefined, ![r].awaits = 0]
            /\ UNCHANGED getVersionP
       ELSE /\ runs' = [runs EXCEPT ![r].pc = "gv", ![r].awaits = 0]
            /\ getVersionP' = TRUE
            /\ UNCHANGED _reallyStop
    /\ UNCHANGED <<stopP, dbVars, _waitingFor, _maxWaitingFor, minVersion, _isPolling,
                   _waitingP, _applyingP, _reduxInited, applies, clients, waiter,
                   sweeping, stragglers, log, hasErrorListener, sqliteVars, budgetVars>>

\* the test `if (this.minVersion > v)` of startPolling's then-callback
\* (minVersion > undefined is false)
WantsMore(v) == v # Undefined /\ minVersion > v

\* the promise startPolling made settles: whoever got it from stopPolling sees it
Settled(p) == IF p = "pending" THEN "resolved" ELSE p

\* _waitForEvent() returned v. For the run startPolling started, the
\* then-callback runs: it calls _waitForEvent() again or clears _waitingP.
\* For the run the then-callback started, nothing more happens.
RunThen(r) ==
    /\ runs[r].pc = "ret"
    /\ IF runs[r].chained
       THEN /\ runs' = [runs EXCEPT ![r] = NoRun]
            /\ stopP' = Settled(stopP)
            /\ UNCHANGED <<_waitingP, getVersionP>>
       ELSE IF WantsMore(runs[r].ret)
       THEN /\ runs' = [runs EXCEPT ![r] = NewRun(TRUE)]
            /\ getVersionP' = TRUE
            /\ UNCHANGED <<_waitingP, stopP>>
       ELSE /\ runs' = [runs EXCEPT ![r] = NoRun]
            /\ _waitingP' = FALSE
            /\ stopP' = Settled(stopP)
            /\ UNCHANGED getVersionP
    /\ UNCHANGED <<dbVars, _waitingFor, _maxWaitingFor, minVersion, _isPolling,
                   _reallyStop, _applyingP, _reduxInited, applies, clients, waiter,
                   sweeping, stragglers, log, hasErrorListener, sqliteVars, budgetVars>>


\* ------------------------------------------------- dispatch, handledVersion
\* queue.add(type, data, ts): the queue assigns the next v
queue_add(type) == Append(queue, Row(type))

CanAdd == Len(queue) < MaxEvents

\* The callers are interchangeable: they make their calls in the order of their ids.
InOrder(c) == \A d \in ClientIds : d < c => clients[d].pc # "idle"

\* dispatch(type): `await this.queue.add(...)`
Dispatch(c, type) ==
    /\ clients[c].pc = "idle"
    /\ InOrder(c)
    /\ CanAdd
    /\ queue' = queue_add(type)
    /\ clients' = [clients EXCEPT ![c].pc = "added", ![c].v = Len(queue) + 1]
    /\ UNCHANGED <<metadataVersion, store, _waitingFor, _maxWaitingFor, minVersion,
                   _isPolling, _reallyStop, stopP, _waitingP, _applyingP, getVersionP,
                   _reduxInited, runs, applies, waiter, sweeping, stragglers, log,
                   hasErrorListener, sqliteVars, budgetVars>>

\* an event inserted into the queue by someone else
ExternalInsert(type) ==
    /\ CanAdd
    /\ queue' = queue_add(type)
    /\ UNCHANGED <<metadataVersion, store, _waitingFor, _maxWaitingFor, minVersion,
                   _isPolling, _reallyStop, stopP, _waitingP, _applyingP, getVersionP,
                   _reduxInited, runs, applies, clients, waiter, sweeping, stragglers, log,
                   hasErrorListener, sqliteVars, budgetVars>>

\* dispatch goes on with handledVersion(event.v), which calls getVersion()
DispatchHandledVersion(c) ==
    /\ clients[c].pc = "added"
    /\ clients' = [clients EXCEPT ![c].pc = "gv"]
    /\ getVersionP' = TRUE
    /\ UNCHANGED <<dbVars, _waitingFor, _maxWaitingFor, minVersion, _isPolling,
                   _reallyStop, stopP, _waitingP, _applyingP, _reduxInited, runs, applies, waiter,
                   sweeping, stragglers, log, hasErrorListener, sqliteVars, budgetVars>>

\* handledVersion(v) called directly: v = 0 returns at once
HandledVersion(c, v) ==
    /\ clients[c].pc = "idle"
    /\ InOrder(c)
    /\ IF v = 0
       THEN /\ clients' = [clients EXCEPT ![c].pc = "done", ![c].out = "undefined"]
            /\ UNCHANGED getVersionP
       ELSE /\ clients' = [clients EXCEPT ![c].pc = "gv", ![c].v = v]
            /\ getVersionP' = TRUE
    /\ UNCHANGED <<dbVars, _waitingFor, _maxWaitingFor, minVersion, _isPolling,
                   _reallyStop, stopP, _waitingP, _applyingP, _reduxInited, runs, applies, waiter,
                   sweeping, stragglers, log, hasErrorListener, sqliteVars, budgetVars>>

\* the test `if (v <= (await this.getVersion()))`
IsApplied_strict(v, ver) == v < ver

IsApplied(v, ver) == v <= ver

\* handledVersion after the version read, v <= version: queue.get(v) is called
HandledVersionApplied(c) ==
    /\ clients[c].pc = "gvd"
    /\ IsApplied(clients[c].v, clients[c].ver)
    /\ clients' = [clients EXCEPT ![c].pc = "qget"]
    /\ UNCHANGED <<dbVars, _waitingFor, _maxWaitingFor, minVersion, _isPolling,
                   _reallyStop, stopP, _waitingP, _applyingP, getVersionP, _reduxInited,
                   runs, applies, waiter, sweeping, stragglers, log, hasErrorListener, sqliteVars,
                   budgetVars>>

\* queue.get(v) resolves: reject with the event when it has an error
HandledVersionGot(c) ==
    /\ clients[c].pc = "qget"
    /\ clients' = [clients EXCEPT
                     ![c].pc = "done",
                     ![c].out = IF HasError(queue[clients[c].v]) THEN "rejected" ELSE "resolved"]
    /\ UNCHANGED <<dbVars, _waitingFor, _maxWaitingFor, minVersion, _isPolling,
                   _reallyStop, stopP, _waitingP, _applyingP, getVersionP, _reduxInited,
                   runs, applies, waiter, sweeping, stragglers, log, hasErrorListener, sqliteVars,
                   budgetVars>>

\* handledVersion after the version read, v > version: a new waiter is
\* registered and startPolling(v) called, or the registered waiter is returned
HandledVersionWait(c) ==
    /\ clients[c].pc = "gvd"
    /\ ~IsApplied(clients[c].v, clients[c].ver)
    /\ LET v == clients[c].v
       IN  IF _waitingFor[v] = 0
           THEN /\ _maxWaitingFor' = IF v > _maxWaitingFor THEN v ELSE _maxWaitingFor
                /\ _waitingFor' = [_waitingFor EXCEPT ![v] = c]
                /\ waiter' = [waiter EXCEPT ![c] = "pending"]
                /\ clients' = [clients EXCEPT ![c].pc = "wait", ![c].p = c]
                /\ startPolling(v, runs)
                /\ UNCHANGED _isPolling
           ELSE /\ clients' = [clients EXCEPT ![c].pc = "wait", ![c].p = _waitingFor[v]]
                /\ UNCHANGED <<_maxWaitingFor, _waitingFor, waiter, minVersion,
                               _isPolling, _waitingP, runs, getVersionP>>
    /\ UNCHANGED <<dbVars, _reallyStop, stopP, _applyingP, _reduxInited, applies, sweeping,
                   stragglers, log, hasErrorListener, sqliteVars, budgetVars>>

\* ------------------------------------------- startPolling, stopPolling calls
StartPolling(wantVersion) ==
    /\ ctl < MaxCtl
    /\ ctl' = ctl + 1
    /\ startPolling(wantVersion, runs)
    /\ UNCHANGED <<dbVars, _waitingFor, _maxWaitingFor, _reallyStop, stopP, _applyingP,
                   _reduxInited, applies, clients, waiter, sweeping, stragglers, log,
                   hasErrorListener, sqliteVars, fails, reopens>>

\* `return this._waitingP || Promise.resolve()`: the promise of the runs
\* startPolling started, pending while one of them has not returned
StopPromise_resolved == "resolved"

StopPromise ==
    IF _waitingP /\ \E r \in RunIds : runs[r].pc # "none" THEN "pending" ELSE "resolved"

StopPolling ==
    /\ ctl < MaxCtl
    /\ ctl' = ctl + 1
    /\ _isPolling' = FALSE
    /\ _reallyStop' = TRUE
    /\ stopP' = StopPromise
    /\ UNCHANGED <<dbVars, _waitingFor, _maxWaitingFor, minVersion, _waitingP,
                   _applyingP, getVersionP, _reduxInited, runs, applies, clients, waiter,
                   sweeping, stragglers, log, hasErrorListener, sqliteVars, fails, reopens>>

\* ------------------------------------------------------------------ reopen
\* Nothing of the instance is running any more.
Quiet ==
    /\ \A r \in RunIds : runs[r].pc = "none" /\ applies[r].pc = "none"
    /\ \A c \in ClientIds : clients[c].pc \in {"idle", "wait", "done"}
    /\ ~getVersionP
    /\ sweeping = {}
    /\ stragglers = {}

\* A new ESDB is constructed on the same database and queue.
Reopen ==
    /\ reopens < MaxReopen
    /\ Quiet
    /\ reopens' = reopens + 1
    /\ _waitingFor' = [v \in Versions |-> 0]
    /\ _maxWaitingFor' = 0
    /\ minVersion' = 1
    /\ _isPolling' = FALSE
    /\ _reallyStop' = FALSE
    /\ stopP' = "none"
    /\ _waitingP' = TRUE
    /\ _applyingP' = 0
    /\ getVersionP' = TRUE
    /\ _reduxInited' = FALSE
    /\ runs' = [r \in RunIds |-> IF r = 1 THEN NewRun(FALSE) ELSE NoRun]
    /\ applies' = [a \in RunIds |-> NoApply]
    /\ clients' = [c \in ClientIds |-> NoClient]
    /\ waiter' = [c \in ClientIds |-> "none"]
    /\ UNCHANGED <<dbVars, sweeping, stragglers, log, hasErrorListener, sqliteVars, fails, ctl>>

\* -------------------------------------------------------------------- Next
\* the steps of the instance itself
Step ==
    \/ GetVersionResolve
    \/ \E r \in RunIds : RunGetNext(r)
    \/ \E r \in RunIds : RunGotEvent(r)
    \/ \E r \in RunIds : RunNoEvent(r)
    \/ \E r \in RunIds : RunReduce(r)
    \/ \E r \in RunIds : RunReduceThrows(r)
    \/ \E r \in RunIds : RunCatch(r)
    \/ \E r \in RunIds : ApplyQueueSet(r)
    \/ \E r \in RunIds : \E name \in {"a", "b"} : ApplyModel(r, name)
    \/ \E r \in RunIds : ApplyMetadata(r)
    \/ \E r \in RunIds : ApplyDerive(r)
    \/ \E r \in RunIds : HandleResultRest(r)
    \/ \E s \in sweeping : SweepResolve(s)
    \/ \E r \in RunIds : RunStopCheck(r)
    \/ \E r \in RunIds : RunThen(r)
    \/ \E c \in ClientIds : DispatchHandledVersion(c)
    \/ \E c \in ClientIds : HandledVersionApplied(c)
    \/ \E c \in ClientIds : HandledVersionGot(c)
    \/ \E c \in ClientIds : HandledVersionWait(c)

\* a write of applyEvent fails
Fails ==
    \/ \E r \in RunIds : ApplyQueueSetFails(r)
    \/ \E r \in RunIds : \E name \in {"a", "b"} : ApplyModelFails(r, name)
    \/ \E s \in stragglers : StragglerApply(s)
    \/ \E r \in RunIds : ApplyMetadataFails(r)
    \/ \E r \in RunIds : ApplyDeriveFails(r)

\* the calls of the callers in Cs, with events of the types in Ts
Calls(Cs, Ts) ==
    \/ \E c \in Cs, type \in Ts : Dispatch(c, type)
    \/ \E type \in Ts : ExternalInsert(type)
    \/ \E c \in Cs, v \in 0..MaxEvents : HandledVersion(c, v)

Control ==
    \/ \E w \in 0..MaxEvents : StartPolling(w)
    \/ StopPolling

\* Concurrent callers of dispatch and handledVersion.
Next ==
    \/ Step
    \/ Calls(ClientIds, CoreTypes)

Spec == Init /\ [][Next]_vars

\* One caller, with startPolling and stopPolling calls.
NextCtl ==
    \/ Step
    \/ Calls({1}, CoreTypes)
    \/ Control

SpecCtl == Init /\ [][NextCtl]_vars

\* One caller; writes of applyEvent may fail, and the ESDB may be re-created.
NextFail ==
    \/ Step
    \/ Calls({1}, CoreTypes)
    \/ Fails
    \/ Reopen

SpecFail == Init /\ [][NextFail]_vars

\* One caller, events of every type.
NextPipe ==
    \/ Step
    \/ Calls({1}, EventTypes)

SpecPipe == Init /\ [][NextPipe]_vars

\* One caller; the event loop runs every continuation that is ready and every
\* queue or database call completes: the steps of the instance are taken
\* whenever they stay possible.
NextLive ==
    \/ Step
    \/ Calls({1}, CoreTypes)

SpecLive == Init /\ [][NextLive]_vars /\ WF_vars(Step)



\* ======================================================== SQLite transactions
\* db.withTransaction(body), as the SQLite tests use it: the calls are served
\* one at a time in call order; `begin` is emitted and BEGIN IMMEDIATE run,
\* then the body; COMMIT and `end` when the body returns, ROLLBACK and
\* `rollback` when it throws, and `finally` in both cases.

\* the errors the bodies of the tests throw
BodyErrors == {"ignoreme", "foo"}

\* withTransaction(body) is called: the call waits for the write lock
withTransaction(t) ==
    /\ txs[t].pc = "idle"
    /\ \A u \in TxIds : u < t => txs[u].pc # "idle"
    /\ txs' = [txs EXCEPT ![t].pc = "queued", ![t].during = writeLock]
    /\ txQueue' = Append(txQueue, t)
    /\ UNCHANGED <<notTx, foo, snapshot, writeLock, emitted, seen, reads>>

\* the write lock is free: no transaction body is running
LockFree_always == TRUE

LockFree == writeLock = 0

\* the call at the head of the queue gets the lock: `begin` is emitted and
\* BEGIN IMMEDIATE is run
TxBegin(t) ==
    /\ LockFree
    /\ txQueue # <<>> /\ Head(txQueue) = t
    /\ txQueue' = Tail(txQueue)
    /\ writeLock' = t
    /\ emitted' = Append(emitted, "begin")
    /\ snapshot' = foo
    /\ txs' = [txs EXCEPT ![t].pc = "body"]
    /\ UNCHANGED <<notTx, foo, seen, reads>>

\* the body runs `INSERT OR REPLACE INTO foo VALUES (hi, ...)`
BodyExec(t, hi) ==
    /\ txs[t].pc = "body"
    /\ txs[t].writes < MaxWrites
    /\ foo' = [foo EXCEPT ![hi] = t]
    /\ txs' = [txs EXCEPT ![t].writes = @ + 1, ![t].wrote = @ \cup {hi}]
    /\ UNCHANGED <<notTx, snapshot, txQueue, writeLock, emitted, seen, reads>>

\* the body returns: COMMIT is run
BodyReturns(t) ==
    /\ txs[t].pc = "body"
    /\ txs' = [txs EXCEPT ![t].pc = "commit"]
    /\ UNCHANGED <<notTx, foo, snapshot, txQueue, writeLock, emitted, seen, reads>>

\* the body throws or rejects: ROLLBACK is run
BodyThrows(t, err) ==
    /\ txs[t].pc = "body"
    /\ txs' = [txs EXCEPT ![t].pc = "rollback", ![t].thrown = err]
    /\ UNCHANGED <<notTx, foo, snapshot, txQueue, writeLock, emitted, seen, reads>>

\* what is emitted once COMMIT is done, and once ROLLBACK is done
CommitEmits == <<"end", "finally">>

RollbackEmits_noFinally == <<"rollback">>

RollbackEmits == <<"rollback", "finally">>

\* COMMIT is done: `end` and `finally` are emitted, the lock is released and
\* the promise of withTransaction resolves
TxCommit(t) ==
    /\ txs[t].pc = "commit"
    /\ emitted' = emitted \o CommitEmits
    /\ writeLock' = 0
    /\ txs' = [txs EXCEPT ![t].pc = "done", ![t].out = "resolved"]
    /\ UNCHANGED <<notTx, foo, snapshot, txQueue, seen, reads>>

\* what ROLLBACK leaves in the table
Rollback_keepsWrites == foo

Rollback == snapshot

\* the error withTransaction rejects with
Rethrown(t) == txs[t].thrown

\* ROLLBACK is done: `rollback` and `finally` are emitted, the lock is
\* released and the promise of withTransaction rejects with the body's error
TxRollback(t) ==
    /\ txs[t].pc = "rollback"
    /\ foo' = Rollback
    /\ emitted' = emitted \o RollbackEmits
    /\ writeLock' = 0
    /\ txs' = [txs EXCEPT ![t].pc = "done", ![t].out = "rejected",
                          ![t].error = Rethrown(t)]
    /\ UNCHANGED <<notTx, snapshot, txQueue, seen, reads>>

\* db.all`SELECT * from foo` on the same connection
SelectAll ==
    /\ reads < MaxReads
    /\ reads' = reads + 1
    /\ seen' = foo
    /\ UNCHANGED <<notTx, foo, snapshot, txs, txQueue, writeLock, emitted>>

NextTx ==
    \/ \E t \in TxIds : withTransaction(t)
    \/ \E t \in TxIds : TxBegin(t)
    \/ \E t \in TxIds, hi \in Keys : BodyExec(t, hi)
    \/ \E t \in TxIds : BodyReturns(t)
    \/ \E t \in TxIds, err \in BodyErrors : BodyThrows(t, err)
    \/ \E t \in TxIds : TxCommit(t)
    \/ \E t \in TxIds : TxRollback(t)
    \/ SelectAll

SpecTx == Init /\ [][NextTx]_vars


\* ================================================= reducer(state, event) alone
\* The reducer called on any event of the queue with any version document,
\* apart from the poll loop.

\* redux hands reducer an event fetched from the queue
PreFetch(v, type, versionDoc) ==
    /\ preOut = NoCallYet
    /\ preIn = NoCallYet
    /\ preIn' = [event |-> Event(v, Row(type)), versionDoc |-> versionDoc]
    /\ UNCHANGED <<notPre, preOut>>

\* reducer(state, event) returns
PreReduce ==
    /\ preIn # NoCallYet
    /\ preOut = NoCallYet
    /\ LET red == reducer(preIn.versionDoc, preIn.event)
       IN  preOut' = [event |-> red.event, versionDoc |-> preIn.versionDoc,
                      ran |-> red.ran, reduced |-> red.reduced]
    /\ UNCHANGED <<notPre, preIn>>

NextPre ==
    \/ \E v \in Versions, type \in PreTypes, versionDoc \in {NoDoc} \cup (0..MaxEvents) :
         PreFetch(v, type, versionDoc)
    \/ PreReduce

SpecPre == Init /\ [][NextPre]_vars

\* ========================================================= prepared statements
\* db.prepare(sql) and the statement's all(), with the connection's lazy
\* open and close(), as the Statement tests use them. Statement 1 is
\* `SELECT 5`, statement 2 reads the table foo.

\* what a statement returns on a database with the given table
StmtRows(st, table) ==
    IF st = 1 THEN {5}
    ELSE IF table = NoTable THEN SqlError
    ELSE table

\* new DB({file}): nothing is opened yet; without a file the database is in memory
NewDB(file) ==
    /\ ~sdb.created
    /\ sdb' = [NoDB EXCEPT !.created = TRUE, !.file = file]
    /\ UNCHANGED <<notSt, tbl, stmts, closedWith>>

\* the connection after an operation that needs it open: opened when it was not
Opened(d) == IF d.isOpen THEN d ELSE [d EXCEPT !.isOpen = TRUE, !.opens = @ + 1]

\* db.exec`CREATE TABLE IF NOT EXISTS foo(hi ...); INSERT INTO foo VALUES (hi)`
DbExec(hi) ==
    /\ sdb.created
    /\ sdb' = Opened(sdb)
    /\ tbl' = (IF tbl = NoTable THEN {} ELSE tbl) \cup {hi}
    /\ UNCHANGED <<notSt, stmts, closedWith>>

\* db.prepare(sql): the statement keeps its SQL; nothing is compiled yet
Prepare(st) ==
    /\ sdb.created
    /\ ~stmts[st].prepared
    /\ stmts' = [stmts EXCEPT ![st].prepared = TRUE]
    /\ UNCHANGED <<notSt, sdb, tbl, closedWith>>

\* the compiled handle to use on connection d: the cached one, or a new one
\* compiled from the stored SQL on d
Compiled(h, d) == IF h # 0 THEN h ELSE d.opens

\* s.all(): opens the connection when it is closed, compiles when there is no
\* handle, runs the statement
StmtAll(st) ==
    /\ stmts[st].prepared
    /\ sdb' = Opened(sdb)
    /\ stmts' = [stmts EXCEPT ![st].handle = Compiled(stmts[st].handle, Opened(sdb)),
                              ![st].rows = StmtRows(st, tbl)]
    /\ UNCHANGED <<notSt, tbl, closedWith>>

\* what close() leaves of a statement's handle
Finalized_kept(h) == h

Finalized(h) == 0

\* what close() leaves of the database: a file keeps its tables, memory does not
AfterClose(d, table) == IF d.file THEN table ELSE NoTable

\* db.close(): the statements are finalized and the handle is released
DbClose ==
    /\ sdb.isOpen
    /\ sdb.closes < MaxCloses
    /\ sdb' = [sdb EXCEPT !.isOpen = FALSE, !.closes = @ + 1]
    /\ stmts' = [st \in StmtIds |-> [stmts[st] EXCEPT !.handle = Finalized(@)]]
    /\ closedWith' = [st \in StmtIds |-> StmtRows(st, tbl)]
    /\ tbl' = AfterClose(sdb, tbl)
    /\ UNCHANGED notSt

\* s.finalize(): the handle is released; a second finalize finds none
StmtFinalize(st) ==
    /\ stmts[st].prepared
    /\ stmts[st].handle # 0
    /\ stmts' = [stmts EXCEPT ![st].handle = Finalized(@)]
    /\ UNCHANGED <<notSt, sdb, tbl, closedWith>>

NextStmt ==
    \/ \E file \in BOOLEAN : NewDB(file)
    \/ \E hi \in Keys : DbExec(hi)
    \/ \E st \in StmtIds : Prepare(st)
    \/ \E st \in StmtIds : StmtAll(st)
    \/ DbClose
    \/ \E st \in StmtIds : StmtFinalize(st)

SpecStmt == Init /\ [][NextStmt]_vars


\* ================================================================ dataVersion
\* Two connections db1 and db2 on one file, as in the test 'dataVersion'.
\* PRAGMA data_version is per connection: a connection that takes a read
\* lock and finds the file's change counter different from the one it has
\* cached knows another connection committed, and counts its version up.

\* connection c after it took a read lock
Sync(c) ==
    IF conn[c].cached # fileChange
    THEN [cached |-> fileChange, dv |-> conn[c].dv + 1]
    ELSE conn[c]

\* db.dataVersion() of connection c, were it called now
DataVersion(c) == Sync(c).dv

\* the commits of the connections other than c
OthersCommits(c) == fileChange - commits[c]

\* db.exec`SELECT 1;`
DvRead(c) ==
    /\ conn' = [conn EXCEPT ![c] = Sync(c)]
    /\ UNCHANGED <<notDv, fileChange, commits, dvLast>>

\* what a connection's own commit does to its data version
OwnCommit_counts(v) == v + 1

OwnCommit(v) == v

\* db.exec`INSERT INTO foo VALUES (43, 1);`: the commit moves the file's
\* change counter, and the writer caches the new counter
DvWrite(c) ==
    /\ commits[c] < MaxCommits
    /\ fileChange' = fileChange + 1
    /\ commits' = [commits EXCEPT ![c] = @ + 1]
    /\ conn' = [conn EXCEPT ![c] = [cached |-> fileChange + 1, dv |-> OwnCommit(Sync(c).dv)]]
    /\ UNCHANGED <<notDv, dvLast>>

\* await db.dataVersion()
DataVersionCall(c) ==
    /\ conn' = [conn EXCEPT ![c] = Sync(c)]
    /\ dvLast' = [dvLast EXCEPT ![c] = [v |-> DataVersion(c), at |-> OthersCommits(c)]]
    /\ UNCHANGED <<notDv, fileChange, commits>>

NextDv ==
    \/ \E c \in Conns : DvRead(c)
    \/ \E c \in Conns : DvWrite(c)
    \/ \E c \in Conns : DataVersionCall(c)

SpecDv == Init /\ [][NextDv]_vars


\* ====================================================================== sql``
\* The tagged template sql`...${val}TAG...`. Text is a sequence of
\* one-character strings; a value is a number or a string with its text.

Letters == {"I", "D", "L", "T", "J", "S", "O", "N", "X", "s", "a", "b", "m"}

ID == <<"I", "D">>
LIT == <<"L", "I", "T">>
JSON == <<"J", "S", "O", "N">>
KnownTags == {ID, LIT, JSON}

Num(text) == [t |-> "num", s |-> text]
Str(text) == [t |-> "str", s |-> text]

\* the values the tests interpolate: 1, 'a', 'a"m"'
Values == {Num(<<"1">>), Str(<<"a">>), Str(<<"a", "\"", "m", "\"">>)}

\* the literal chunks: nothing, a tag or a piece of one, followed by nothing,
\* letters, a comma or a space
Chunks ==
    {pre \o tail : pre \in {<<>>, ID, LIT, JSON, <<"I">>, <<"X">> \o ID},
                   tail \in {<<>>, <<"s">>, <<",">>, <<" ", "b">>, <<"X">>, <<"s", " ">>}}

Drop(text, n) == SubSeq(text, n + 1, Len(text))

\* the leading run of letters of a chunk
RECURSIVE LeadingRun(_)
LeadingRun(chunk) ==
    IF chunk = <<>> \/ Head(chunk) \notin Letters THEN <<>>
    ELSE <<Head(chunk)>> \o LeadingRun(Tail(chunk))

\* the tag at the start of a chunk, <<>> when there is none
TagOf_prefix(chunk) ==
    IF \E tag \in KnownTags : Len(chunk) >= Len(tag) /\ SubSeq(chunk, 1, Len(tag)) = tag
    THEN CHOOSE tag \in KnownTags : Len(chunk) >= Len(tag) /\ SubSeq(chunk, 1, Len(tag)) = tag
    ELSE <<>>

TagOf(chunk) == IF LeadingRun(chunk) \in KnownTags THEN LeadingRun(chunk) ELSE <<>>

\* text.replace(/"/g, with)
RECURSIVE ReplaceQuotes(_, _)
ReplaceQuotes(text, with) ==
    IF text = <<>> THEN <<>>
    ELSE (IF Head(text) = "\"" THEN with ELSE <<Head(text)>>) \o ReplaceQuotes(Tail(text), with)

\* sql.quoteId(val)
quoteId(val) == <<"\"">> \o ReplaceQuotes(val.s, <<"\"", "\"">>) \o <<"\"">>

\* JSON.stringify(val): a number is its decimal text, a string is quoted
\* with its quotes escaped
json_encode(val) ==
    IF val.t = "num" THEN Str(val.s)
    ELSE Str(<<"\"">> \o ReplaceQuotes(val.s, <<"\\", "\"">>) \o <<"\"">>)

\* one interpolation: the value, then the chunk after it
Interpolate(acc, val, chunk) ==
    LET mod == TagOf(chunk)
        rest == Drop(chunk, Len(mod))
    IN  IF mod = ID THEN [acc EXCEPT !.out = @ \o quoteId(val) \o rest]
        ELSE IF mod = LIT THEN [acc EXCEPT !.out = @ \o val.s \o rest]
        ELSE [out |-> acc.out \o <<"?">> \o rest,
              vars |-> Append(acc.vars, IF mod = JSON THEN json_encode(val) ELSE val)]

\* sql`s0...`: the text starts with the first chunk
SqlStart(s0) ==
    /\ sqlIn.strings = <<>>
    /\ sqlIn' = [strings |-> <<s0>>, values |-> <<>>]
    /\ sqlOut' = [out |-> s0, vars |-> <<>>]
    /\ UNCHANGED notSql

\* sql`...${val}chunk`: the next value and the chunk that follows it
SqlInterpolate(val, chunk) ==
    /\ sqlIn.strings # <<>>
    /\ Len(sqlIn.values) < MaxVals
    /\ sqlIn' = [strings |-> Append(sqlIn.strings, chunk), values |-> Append(sqlIn.values, val)]
    /\ sqlOut' = Interpolate(sqlOut, val, chunk)
    /\ UNCHANGED notSql

NextSql ==
    \/ \E s0 \in {<<>>, <<"a", " ">>} : SqlStart(s0)
    \/ \E val \in Values, chunk \in Chunks : SqlInterpolate(val, chunk)

SpecSql == Init /\ [][NextSql]_vars


\* ================================================================== claims

\* C1: events are applied in strict v order. Whenever the applied version
\* stored in metadata changes, it changes to the version after it (none is
\* skipped, it never decreases), and the event being applied is that version.
C1_StrictOrder ==
    [][metadataVersion' # metadataVersion =>
         /\ metadataVersion' = getVersion + 1
         /\ \E a \in RunIds : /\ applies[a].pc = "meta"
                              /\ applies[a].event.v = metadataVersion']_vars

\* every event of the queue was applied, one of them at the second attempt
C1_Witness == metadataVersion = MaxEvents /\ fails > 0


\* a caller waits on a waiter that is not settled, for an event of the queue
Waiting(c) ==
    /\ clients[c].pc = "wait"
    /\ waiter[clients[c].p] = "pending"
    /\ clients[c].v <= Len(queue)

\* C2: waiter liveness. While a caller waits for an event that is in the
\* queue, the instance still has a step to take towards settling its promise
\* (no stopPolling call, no failing apply).
C2_WaiterLiveness == \A c \in ClientIds : Waiting(c) => ENABLED Step

\* the events in flight between the start of reducer and the end of applyEvent
Reducing == {r \in RunIds : runs[r].pc \in {"dispatch", "crashed"}}
Applying == {a \in RunIds : applies[a].pc \in {"qset", "models", "meta", "derive"}}

\* C3: serialization. At most one event is in flight between the start of
\* reducer and the completion of applyEvent; when reducer(b) begins, no
\* handleResult is running, _applyingP is null and every event before b is applied.
C3_Serialization ==
    /\ Cardinality(Reducing) + Cardinality(Applying) <= 1
    /\ \A r \in Reducing :
         /\ _applyingP = 0
         /\ \A a \in RunIds : applies[a].pc = "none"
         /\ getVersion >= runs[r].event.v - 1

\* reducer of the second event begins after a startPolling or stopPolling call
C3_Witness ==
    /\ ctl > 0
    /\ \E r \in RunIds : runs[r].pc = "dispatch" /\ runs[r].event.v = 2
    /\ \E c \in ClientIds : clients[c].pc = "wait"

\* C4: at-most-once. The change set of an event is applied to a model
\* table at most once, also when an apply fails part-way or the ESDB is re-created.
C4_AtMostOnce == \A n \in {"a", "b"} : \A v \in Versions : store[n][v] <= 1

\* C5: monotonic apply. At the moment `handled` is emitted for event v, the
\* applied version stored in metadata is v.
C5_MonotonicApply ==
    \A a \in RunIds : applies[a].pc = "applied" => metadataVersion = applies[a].event.v


\* event v as the queue hands it out the first time
Fresh(v) == Event(v, Row(queue[v].type))

\* the handleResult / applyEvent invocations working on event v
AppliesOf(v) == {a \in RunIds : applies[a].pc # "none" /\ applies[a].event.v = v}

\* the user models whose reducer returns an error for event v
RedErrs(v) ==
    IF HasError(preprocessor(Fresh(v)).event) \/ reducerThrows(Fresh(v)) THEN {}
    ELSE {n \in {"a", "b"} : UserReducer(n, preprocessor(Fresh(v)).event).op = "error"}

\* C6: reducer error. When a model reducer returns an error for event v, all
\* reducers ran, event.error holds exactly the erroring models' errors, the
\* result handed to applyEvent holds only metadata, no model table is changed
\* by event v, and the applied version advances to v.
C6_ReducerError ==
    \A v \in 1..Len(queue) : RedErrs(v) # {} =>
      /\ \A n \in {"a", "b"} : store[n][v] = 0
      /\ HasError(queue[v]) =>
           /\ DOMAIN queue[v].error = RedErrs(v)
           /\ \A n \in RedErrs(v) : queue[v].error[n] = UserReducer(n, Fresh(v)).err
           /\ DOMAIN queue[v].result = {}
      /\ \A a \in AppliesOf(v) :
           /\ DOMAIN applies[a].event.error = RedErrs(v)
           /\ DOMAIN applies[a].event.result = {}
           /\ applies[a].pending = {}
           /\ applies[a].metadata = Change("set", v, "")
           /\ log[1].v = v /\ log[1].reduced = {"a", "b", "metadata"}
           /\ applies[a].pc = "applied" => metadataVersion = v
      /\ (HasError(queue[v]) /\ AppliesOf(v) = {}) => getVersion >= v

\* the second event had an error of one reducer while the other returned a
\* change, and its apply has finished
C6_Witness ==
    \E a \in AppliesOf(2) :
      /\ RedErrs(2) = {"b"}
      /\ applies[a].pc = "applied"
      /\ metadataVersion = 2

\* the model whose preprocessor returns an error for event v, "" when none does
PreErrModel(v) ==
    IF reducerThrows(Fresh(v)) THEN ""
    ELSE IF UserPreprocessor("a", Fresh(v)).err # "" THEN "a"
    ELSE IF /\ UserPreprocessor("a", Fresh(v)).kind = "none"
            /\ UserPreprocessor("b", Fresh(v)).err # "" THEN "b"
    ELSE ""

\* the preprocessors called up to and including the one of model M
UpTo(M) == IF M = "a" THEN <<"a">> ELSE <<"a", "b">>

\* C7: preprocessor error. When the preprocessor of model M returns an error
\* for event v, no later preprocessor runs, no model reducer but metadata
\* runs, the persisted event has error[M] equal to the returned error, no
\* model table is changed, the applied version advances to v, and the promise
\* of dispatch / handledVersion(v) is never resolved, only rejected.
C7_PreprocessorError ==
    \A v \in 1..Len(queue) : PreErrModel(v) # "" =>
      LET M == PreErrModel(v) IN
      /\ \A n \in {"a", "b"} : store[n][v] = 0
      /\ HasError(queue[v]) =>
           /\ DOMAIN queue[v].error = {M}
           /\ queue[v].error[M] = UserPreprocessor(M, Fresh(v)).err
      /\ \A a \in AppliesOf(v) :
           /\ DOMAIN applies[a].event.error = {M}
           /\ DOMAIN applies[a].event.result = {}
           /\ applies[a].metadata = Change("set", v, "")
           /\ log[1].v = v /\ log[1].ran = UpTo(M) /\ log[1].reduced = {"metadata"}
           /\ applies[a].pc = "applied" => metadataVersion = v
      /\ (HasError(queue[v]) /\ AppliesOf(v) = {}) => getVersion >= v
      /\ \A c \in ClientIds : clients[c].v = v =>
           /\ clients[c].pc = "done" => clients[c].out = "rejected"
           /\ clients[c].pc = "wait" => waiter[clients[c].p] \in {"pending", "rejected"}

\* the preprocessor of the second model returned an error for a dispatched
\* event; the event is handled and the promise of dispatch is rejected
C7_Witness ==
    \E c \in ClientIds :
      /\ clients[c].pc = "wait" /\ clients[c].v = 1
      /\ waiter[clients[c].p] = "rejected"
      /\ PreErrModel(1) = "b"
      /\ queue[1].error["b"] = "bad"
      /\ metadataVersion = 1

\* C8: handledVersion on an applied version. handledVersion(0) resolves at
\* once and changes nothing else; handledVersion(v) that reads a version >= v
\* registers no waiter, starts no poll run, reads event v from the queue and
\* rejects when the event has an error, resolves otherwise.
C8_AlreadyApplied ==
    [][\A c \in ClientIds :
         /\ (clients[c].pc = "idle" /\ clients'[c].pc = "done") =>
              /\ clients'[c].out = "undefined"
              /\ UNCHANGED <<dbVars, _waitingFor, _maxWaitingFor, waiter, minVersion,
                             _isPolling, _waitingP, runs, getVersionP>>
         /\ (clients[c].pc = "gvd" /\ clients[c].v <= clients[c].ver
                /\ clients'[c] # clients[c]) =>
              /\ clients'[c].pc = "qget"
              /\ UNCHANGED <<dbVars, _waitingFor, _maxWaitingFor, waiter, minVersion,
                             _isPolling, _waitingP, runs, getVersionP>>
         /\ (clients[c].pc = "qget" /\ clients'[c] # clients[c]) =>
              /\ clients'[c].pc = "done"
              /\ clients'[c].out = IF HasError(queue[clients[c].v])
                                   THEN "rejected" ELSE "resolved"
              /\ clients[c].v <= getVersion
              /\ UNCHANGED <<dbVars, _waitingFor, _maxWaitingFor, waiter, minVersion,
                             _isPolling, _waitingP, runs, getVersionP>>]_vars

\* handledVersion(v) read version v itself, found the event with its error in
\* the queue and rejected, and a handledVersion(0) call returned
C8_Witness ==
    \E c, d \in ClientIds :
      /\ clients[c].pc = "done" /\ clients[c].v = 2 /\ clients[c].ver = 2
      /\ clients[c].p = 0 /\ clients[c].out = "rejected"
      /\ clients[d].pc = "done" /\ clients[d].out = "undefined"

\* what the log holds of the emissions and of the settling for the event
\* handled last
IsEmission(e) ==
    e.v = log[1].v /\ e.k \in {"result", "error", "handled", "resolve", "reject"}

Kinds(s) == [i \in 1..Len(s) |-> s[i].k]

Emitted == IF log = <<>> THEN <<>> ELSE Kinds(SelectSeq(log, IsEmission))

\* C9: emission order. After applyEvent for event v has finished, `result`
\* (no error) or `error` (error, with an error listener) is emitted, never
\* both, then `handled`, then the waiter for v is settled; without an error
\* listener nothing is emitted for the error, `handled` is emitted and the
\* waiter is rejected.
C9_EmissionOrder ==
    log # <<>> =>
      LET v == log[1].v
          settled == IF HasError(queue[v]) THEN "rejected" ELSE "resolved"
      IN
      /\ Emitted # <<>> =>
           /\ log[2].k = "applied" /\ log[3].k = Emitted[1]
           /\ AppliesOf(v) = {}
           /\ IF ~HasError(queue[v])
                THEN Emitted \in {<<"result", "handled">>, <<"result", "handled", "resolve">>}
              ELSE IF hasErrorListener
                THEN Emitted \in {<<"error", "handled">>, <<"error", "handled", "reject">>}
              ELSE Emitted \in {<<"handled">>, <<"handled", "reject">>}
      /\ \A c \in ClientIds :
           (clients[c].pc = "wait" /\ clients[c].v = v /\ waiter[clients[c].p] # "pending") =>
             /\ waiter[clients[c].p] = settled
             /\ Len(Emitted) >= 2
             /\ Emitted[Len(Emitted) - 1] = "handled"
             /\ Emitted[Len(Emitted)] \in {"resolve", "reject"}

\* an event with an error was handled without an error listener: only
\* `handled` was emitted and the waiter of dispatch is rejected
C9_Witness ==
    /\ ~hasErrorListener
    /\ Emitted = <<"handled", "reject">>
    /\ \E c \in ClientIds : clients[c].pc = "wait" /\ waiter[clients[c].p] = "rejected"


\* the withTransaction calls whose body threw and that have rejected
RolledBack(ts) == {t \in TxIds : ts[t].pc = "done" /\ ts[t].thrown # ""}

\* C10: transaction atomicity. Once withTransaction has finished for a body
\* that threw, no row written by that body is in the table or returned by a
\* later read, and the promise is rejected with the error the body threw.
C10_TransactionAtomicity ==
    [][\A t \in RolledBack(txs') :
         /\ \A hi \in Keys : foo'[hi] # t
         /\ reads' # reads => \A hi \in Keys : seen'[hi] # t
         /\ txs'[t].out = "rejected"
         /\ txs'[t].error = txs'[t].thrown]_vars

\* a body wrote a row over one committed by an earlier transaction and threw;
\* a read after the rollback returned the committed row
C10_Witness ==
    /\ txs[1].out = "resolved"
    /\ txs[2].out = "rejected" /\ txs[2].writes = MaxWrites /\ txs[2].error = "ignoreme"
    /\ reads > 0
    /\ seen = foo
    /\ foo[43] = 1


\* how often an event was emitted on the db handle
Count(e) == Cardinality({i \in 1..Len(emitted) : emitted[i] = e})

\* the withTransaction calls in the given positions
TxAt(pcs) == {t \in TxIds : txs[t].pc \in pcs}

\* C11: transaction event order. `begin` is emitted before the body runs;
\* after the body `end` (body returned) or `rollback` (body threw) is
\* emitted, never both; `finally` comes last, once per call; when no
\* transaction is open finally = begin, and always end + rollback = finally.
C11_TransactionEvents ==
    /\ \A i \in 1..Len(emitted) :
         /\ emitted[i] = "begin" => (i = 1 \/ emitted[i - 1] = "finally")
         /\ emitted[i] \in {"end", "rollback"} => (i > 1 /\ emitted[i - 1] = "begin")
         /\ emitted[i] = "finally" => (i > 1 /\ emitted[i - 1] \in {"end", "rollback"})
    /\ \A t \in TxAt({"body", "commit", "rollback"}) : emitted[Len(emitted)] = "begin"
    /\ Count("begin") = Cardinality(TxAt({"body", "commit", "rollback", "done"}))
    /\ Count("end") = Cardinality({t \in TxAt({"done"}) : txs[t].thrown = ""})
    /\ Count("rollback") = Cardinality({t \in TxAt({"done"}) : txs[t].thrown # ""})
    /\ Count("finally") = Cardinality(TxAt({"done"}))
    /\ TxAt({"body", "commit", "rollback"}) = {} => Count("finally") = Count("begin")

\* one call committed and the next one rolled back
C11_Witness ==
    emitted = <<"begin", "end", "finally", "begin", "rollback", "finally">>

\* the call among those before t that committed a write of row hi last, 0 when none
LastCommitted(hi, t) ==
    LET us == {u \in TxIds : u < t /\ txs[u].out = "resolved" /\ hi \in txs[u].wrote}
    IN  IF us = {} THEN 0 ELSE CHOOSE u \in us : \A w \in us : w <= u

\* C12: transaction mutual exclusion. At most one body runs at a time, it is
\* the one holding the write lock; when a body runs every call made before it
\* has committed or rolled back, and what the body found in the table at its
\* start is what the earlier calls committed.
C12_MutualExclusion ==
    /\ Cardinality(TxAt({"body", "commit", "rollback"})) <= 1
    /\ \A t \in TxAt({"body", "commit", "rollback"}) :
         /\ writeLock = t
         /\ \A u \in TxIds : u < t => txs[u].pc = "done"
         /\ \A hi \in Keys : snapshot[hi] = LastCommitted(hi, t)

\* the second call was made while the body of the first was running; its
\* body runs now and has found the row the first one committed
C12_Witness ==
    /\ txs[2].pc = "body" /\ txs[2].during = 1
    /\ txs[1].out = "resolved"
    /\ snapshot[43] = 1


\* a run of the poll loop is in flight: _waitForEvent was called and has not returned
Armed == \E r \in RunIds : runs[r].pc \notin {"none", "ret"}

Stopped(rs, as) ==
    /\ \A r \in RunIds : rs[r].pc = "none"
    /\ \A a \in RunIds : as[a].pc = "none"

\* C14: stopPolling is a cooperative cancel. The call clears _isPolling,
\* sets _reallyStop and returns a promise that is resolved at once exactly
\* when no run is in flight; the promise resolves only when no run and no
\* apply is left; a run that exits because of the stop has applied the event
\* it was working on; and while no run is in flight nothing is reduced or
\* applied, a new run being started only by startPolling or handledVersion.
C14_StopPolling ==
    [][/\ StopPolling =>
            /\ ~_isPolling' /\ _reallyStop'
            /\ stopP' = "resolved" <=> \A r \in RunIds : runs[r].pc = "none"
       /\ (stopP # "resolved" /\ stopP' = "resolved") =>
            /\ Stopped(runs', applies')
            /\ _applyingP' = 0
       /\ \A r \in RunIds :
            (runs[r].pc # "ret" /\ runs'[r].pc = "ret" /\ runs'[r].ret = Undefined) =>
              /\ runs[r].lastV >= 1
              /\ getVersion = runs[r].lastV
              /\ \A a \in RunIds : applies[a].pc = "none"
       /\ (\A r \in RunIds : runs[r].pc = "none") =>
            /\ Stopped(runs, applies)
            /\ metadataVersion' = metadataVersion
            /\ (\E r \in RunIds : runs'[r].pc # "none") =>
                 \/ ctl' # ctl
                 \/ \E c \in ClientIds : clients[c].pc = "gvd" /\ clients'[c].pc = "wait"
      ]_vars

\* stopPolling was called, a run has consumed _reallyStop and exited after
\* the event it was working on, the promise is resolved, and the second
\* event of the queue is left unapplied
C14_Witness ==
    /\ stopP = "resolved" /\ ~_reallyStop
    /\ Stopped(runs, applies)
    /\ getVersion = 1 /\ Len(queue) = 2
    /\ \E c \in ClientIds : clients[c].pc = "wait" /\ clients[c].v = 2
                            /\ waiter[clients[c].p] = "pending"


\* C15 as stated: the first use of a statement after close() reopens the
\* connection, recompiles, and returns the rows the statement returned
\* before the close.
C15_SameRowsAfterClose ==
    [][\A st \in StmtIds :
         (StmtAll(st) /\ ~sdb.isOpen /\ sdb.closes > 0) =>
           /\ sdb'.isOpen /\ sdb'.opens = sdb.opens + 1
           /\ stmts'[st].handle = sdb'.opens
           /\ stmts'[st].rows = closedWith[st]]_vars

\* C15, amended: a statement outlives close(). close() leaves no statement
\* with a handle; the next use reopens the connection, compiles a handle on
\* the new connection and returns the rows the SQL yields there: the rows
\* from before the close when the database is a file or the statement reads
\* no table. After every use the handle is one of the open connection.
C15_StatementOutlivesClose ==
    [][/\ DbClose => \A st \in StmtIds : stmts'[st].handle = 0
       /\ \A st \in StmtIds : StmtAll(st) =>
            /\ sdb'.isOpen /\ stmts'[st].handle = sdb'.opens
            /\ stmts'[st].rows = StmtRows(st, tbl')
            /\ (~sdb.isOpen /\ sdb.closes > 0) =>
                 /\ sdb'.opens = sdb.opens + 1
                 /\ (sdb.file \/ st = 1) => stmts'[st].rows = closedWith[st]]_vars

\* after the second close the statement reading the table of a file database
\* was used again and returned the row it returned before
C15_Witness ==
    /\ sdb.file /\ sdb.closes = MaxCloses /\ sdb.isOpen
    /\ stmts[2].handle = sdb.opens
    /\ stmts[2].rows = {43} /\ closedWith[2] = {43}


\* C16: for two connections on one file, a read-only statement on either
\* connection changes neither connection's dataVersion(); a connection's
\* committed write leaves its own dataVersion() as it was; and a
\* dataVersion() call returns more than the connection's previous call when
\* the other connection committed in between, and the same value when it
\* did not.
C16_DataVersion ==
    [][\A c \in Conns :
         /\ DvRead(c) => \A d \in Conns : DataVersion(d)' = DataVersion(d)
         /\ DvWrite(c) => DataVersion(c)' = DataVersion(c)
         /\ (DataVersionCall(c) /\ dvLast[c] # NoCall) =>
              IF OthersCommits(c) > dvLast[c].at
              THEN dvLast'[c].v > dvLast[c].v
              ELSE dvLast'[c].v = dvLast[c].v]_vars

\* both connections committed a write and each saw the other's commit
C16_Witness ==
    /\ commits[1] = 1 /\ commits[2] = 1
    /\ dvLast[1] = [v |-> 2, at |-> 1]
    /\ dvLast[2] = [v |-> 2, at |-> 1]


\* the chunk starts with exactly this tag: the tag is not followed by a letter
StartsWithTag(chunk, tag) ==
    /\ Len(chunk) >= Len(tag)
    /\ SubSeq(chunk, 1, Len(tag)) = tag
    /\ Len(chunk) > Len(tag) => chunk[Len(tag) + 1] \notin Letters

\* a double-quoted identifier read back: the quotes around it dropped and its
\* doubled quotes undoubled; <<"?">> when it is not one
RECURSIVE Undoubled(_)
Undoubled(text) ==
    IF text = <<>> THEN <<>>
    ELSE IF Head(text) # "\"" THEN <<Head(text)>> \o Undoubled(Tail(text))
    ELSE IF Len(text) >= 2 /\ text[2] = "\"" THEN <<"\"">> \o Undoubled(Drop(text, 2))
    ELSE <<"?">>

Unquoted(text) ==
    IF Len(text) >= 2 /\ Head(text) = "\"" /\ text[Len(text)] = "\""
    THEN Undoubled(SubSeq(text, 2, Len(text) - 1))
    ELSE <<"?">>

QuestionMarks(text) == Cardinality({i \in 1..Len(text) : text[i] = "?"})

\* C17: every interpolation appends to the text, for a chunk that starts
\* with exactly ID, the value as a double-quoted identifier with its quotes
\* doubled and the chunk without the tag, and no bind; for LIT, the value's
\* text and the chunk without the tag, and no bind; for JSON, `?` and the
\* chunk without the tag, and binds the JSON-encoded value; for any other
\* chunk, IDs, LITs and JSONs included, `?` and the whole chunk, and binds
\* the raw value. There are as many binds as `?` in the text.
C17_TagHandling ==
    /\ [][\A val \in Values, chunk \in Chunks : SqlInterpolate(val, chunk) =>
            LET added == Drop(sqlOut'.out, Len(sqlOut.out))
                id == SubSeq(added, 1, Len(added) - (Len(chunk) - 2))
                unchanged == sqlOut'.vars = sqlOut.vars
                bound(v) == sqlOut'.vars = Append(sqlOut.vars, v)
            IN  /\ SubSeq(sqlOut'.out, 1, Len(sqlOut.out)) = sqlOut.out
                /\ IF StartsWithTag(chunk, ID)
                   THEN added = id \o Drop(chunk, 2) /\ Unquoted(id) = val.s /\ unchanged
                   ELSE IF StartsWithTag(chunk, LIT)
                   THEN added = val.s \o Drop(chunk, 3) /\ unchanged
                   ELSE IF StartsWithTag(chunk, JSON)
                   THEN added = <<"?">> \o Drop(chunk, 4) /\ bound(json_encode(val))
                   ELSE added = <<"?">> \o chunk /\ bound(val)]_vars
    /\ [](Len(sqlOut.vars) = QuestionMarks(sqlOut.out))

\* sql`a ${'a"m"'}ID,${1}IDs` gave `a "a""m""",?IDs` with the bind 1
C17_Witness ==
    /\ sqlIn.strings = <<<<"a", " ">>, ID \o <<",">>, ID \o <<"s">>>>
    /\ sqlIn.values = <<Str(<<"a", "\"", "m", "\"">>), Num(<<"1">>)>>
    /\ sqlOut.out = <<"a", " ", "\"", "a", "\"", "\"", "m", "\"", "\"", "\"", ",", "?", "I", "D", "s">>
    /\ sqlOut.vars = <<Num(<<"1">>)>>


\* the queue row of event v carries its result or its error
RowDone(v) == HasError(queue[v]) \/ DOMAIN queue[v].result # {}

\* the models the reducer of event v returns changes for
ChangesOf(v) ==
    IF reducerThrows(Fresh(v)) THEN {}
    ELSE DOMAIN reducer(v - 1, Fresh(v)).event.result \ {"metadata"}

InTables(v) == \A name \in ChangesOf(v) : store[name][v] >= 1

\* C18: the write order of applyEvent for event v. A model's applyChanges
\* has started only when queue.set has completed; the metadata write has
\* started only when every model's applyChanges has completed; the derivers
\* have started only when the metadata write has completed. So whenever the
\* applied version is v or more, the queue row of v carries its result or
\* error and the reducer's changes of v are in the tables; and when the
\* reducer of an event is about to run, no apply is in progress and every
\* earlier event is applied.
C18_WriteOrder ==
    /\ \A a \in RunIds :
         LET v == applies[a].event.v
         IN  /\ applies[a].pc = "qset" =>
                  /\ getVersion = v - 1
                  /\ \A name \in {"a", "b"} : store[name][v] = 0
             /\ applies[a].pc = "models" =>
                  /\ RowDone(v) /\ queue[v].result = applies[a].event.result
                  /\ getVersion = v - 1
                  /\ ChangesOf(v) = DOMAIN applies[a].event.result
                  /\ \A name \in ChangesOf(v) \ applies[a].pending : store[name][v] = 1
             /\ applies[a].pc = "meta" =>
                  /\ RowDone(v) /\ InTables(v) /\ applies[a].pending = {}
                  /\ getVersion = v - 1
             /\ applies[a].pc = "derive" =>
                  /\ RowDone(v) /\ InTables(v)
                  /\ getVersion = v
    /\ \A v \in 1..Len(queue) :
         /\ (\E name \in {"a", "b"} : store[name][v] >= 1) => RowDone(v)
         /\ v <= getVersion => (RowDone(v) /\ InTables(v))
    /\ \A r \in RunIds : runs[r].pc = "dispatch" =>
         /\ getVersion = runs[r].event.v - 1
         /\ \A a \in RunIds : applies[a].pc \in {"none", "applied"}

\* the second event changed both models, its metadata write has completed
\* and its derivers are running
C18_Witness ==
    \E a \in RunIds :
      /\ applies[a].pc = "derive" /\ applies[a].event.v = 2
      /\ ChangesOf(2) = {"a", "b"}
      /\ metadataVersion = 2
      /\ store["a"][2] = 1 /\ store["b"][2] = 1
      /\ queue[2].result = applies[a].event.result


\* the store dispatch of event v throws
Crashes(v) == reducerThrows(Fresh(v))

\* a run is in the catch block of _waitForEvent with event v
Caught(v) == \E r \in RunIds : runs[r].pc = "crashed" /\ runs[r].event.v = v

\* C19: when the store dispatch of event v throws, the event handed to
\* handleResult carries error._redux and a result that holds only the
\* metadata change setting the version to v; no model table is changed; when
\* its apply is done the applied version is v; a waiter for v is never
\* resolved, and is rejected only with the version at v or beyond; and the
\* loop goes on: from the catch block the version reaches v and then the
\* end of the queue.
C19_DispatchCrash ==
    /\ [](\A v \in 1..Len(queue) : Crashes(v) =>
            /\ \A name \in {"a", "b"} : store[name][v] = 0
            /\ \A a \in AppliesOf(v) :
                 /\ DOMAIN applies[a].event.error = {"_redux"}
                 /\ DOMAIN applies[a].event.result = {}
                 /\ applies[a].metadata = Change("set", v, "")
                 /\ applies[a].pc = "applied" => metadataVersion = v
            /\ HasError(queue[v]) => DOMAIN queue[v].error = {"_redux"}
            /\ v <= getVersion => HasError(queue[v])
            /\ \A c \in ClientIds :
                 (clients[c].pc = "wait" /\ clients[c].v = v
                    /\ waiter[clients[c].p] # "pending") =>
                   /\ waiter[clients[c].p] = "rejected"
                   /\ getVersion >= v)
    /\ \A v \in Versions : Caught(v) ~> (getVersion >= v)
    /\ \A v \in Versions : Caught(v) ~> (getVersion = Len(queue))

\* the dispatch of the first event threw, its waiter is rejected, and the
\* loop went on to apply the second event
C19_Witness ==
    /\ Len(queue) = 2 /\ Crashes(1) /\ ~Crashes(2)
    /\ getVersion = 2
    /\ DOMAIN queue[1].error = {"_redux"}
    /\ \E c \in ClientIds :
         clients[c].pc = "wait" /\ clients[c].v = 1 /\ waiter[clients[c].p] = "rejected"


\* C20: apply error. When a write inside applyEvent(v) has failed, no result
\* or error is persisted in the queue row of v and the applied version is
\* not advanced to v, so that the next poll fetches event v again.
C20_ApplyError ==
    \A a \in RunIds : (applies[a].pc = "applied" /\ applies[a].failed) =>
      /\ ~RowDone(applies[a].event.v)
      /\ getVersion < applies[a].event.v
      /\ getNext(getVersion) = {applies[a].event.v}


\* the preprocessor of the model returns an event with another v or no type
Misuse(name, event) ==
    LET newEvent == UserPreprocessor(name, event)
    IN  newEvent.kind = "event" /\ newEvent.err = "" /\
        (newEvent.v # event.v \/ newEvent.type = "")

\* the preprocessor of the model returns nothing and leaves the event alone
PassesOn(name, event) ==
    UserPreprocessor(name, event).kind = "none" /\ UserPreprocessorMutates(name, event) = event.v

\* when the i-th preprocessor changes the version or leaves the type empty,
\* the stage yields the input event with its v and type and
\* error._preprocess, later preprocessors and the model reducers are
\* skipped, and the metadata change carries the v of the fetched event
C21_MisuseSurfaced ==
    preOut # NoCallYet =>
      \A i \in 1..Len(preprocNames) :
        ((\A j \in 1..(i - 1) : PassesOn(preprocNames[j], preIn.event))
           /\ Misuse(preprocNames[i], preIn.event)) =>
          /\ preOut.event.v = preIn.event.v
          /\ preOut.event.type = preIn.event.type
          /\ DOMAIN preOut.event.error = {"_preprocess"}
          /\ preOut.ran = SubSeq(preprocNames, 1, i)
          /\ preOut.reduced = {"metadata"}
          /\ preOut.event.result = [k \in {"metadata"} |->
                                      metadata_reducer(preIn.versionDoc, preIn.event.v)]

\* C21: preprocessor misuse. A preprocessor that changes the event's version
\* or leaves the type empty yields the input event with its v and type and
\* error._preprocess, with the later preprocessors and the model reducers
\* skipped; and in every execution the v of the event leaving the
\* preprocessor stage, which queue.set writes and the metadata change
\* records, is the v of the event that entered it.
C21_PreprocessorMisuse ==
    /\ C21_MisuseSurfaced
    /\ preOut # NoCallYet =>
         /\ preOut.event.v = preIn.event.v
         /\ preOut.event.result["metadata"].op = "set" =>
              preOut.event.result["metadata"].v = preIn.event.v


\* the registry keys and the sweep reads that hold the promise p
Holders(p, reg, gets) ==
    {[key |-> w, in |-> "registry"] : w \in {x \in Versions : reg[x] = p}} \cup
    {[key |-> g.v, in |-> "sweep"] : g \in {x \in gets : x.o = p}}

Registered == {w \in Versions : _waitingFor[w] # 0}

\* C22: the waiter registry. Callers waiting for the same unhandled v hold
\* the same promise; a pending promise is held exactly once, by the registry
\* or by a queue.get of the sweep, and a settled one is held by neither (so
\* none is settled twice and none is dropped unsettled); when event v is
\* handled its entry is removed and its promise settled; after
\* triggerWaitingEvent for an event with v >= _maxWaitingFor the registry is
\* empty, every entry that was in it had a key <= v and is handed to a
\* queue.get of its own key; and a promise is settled by the event of its own
\* key: rejected when that event has an error, resolved when not.
C22_RegistrySweep ==
    /\ [](/\ \A c, d \in ClientIds :
               (clients[c].pc = "wait" /\ clients[d].pc = "wait"
                  /\ clients[c].v = clients[d].v /\ clients[c].v > getVersion
                  /\ waiter[clients[c].p] = "pending" /\ waiter[clients[d].p] = "pending") =>
                 clients[c].p = clients[d].p
          /\ \A c \in ClientIds :
               /\ clients[c].pc = "wait" => waiter[clients[c].p] # "none"
               /\ waiter[c] = "pending" => Cardinality(Holders(c, _waitingFor, sweeping)) = 1
               /\ waiter[c] # "pending" => Holders(c, _waitingFor, sweeping) = {})
    /\ [][/\ \A a \in RunIds : HandleResultRest(a) =>
               LET event == applies[a].event
                   o == _waitingFor[event.v]
               IN  /\ _waitingFor'[event.v] = 0
                   /\ o # 0 => waiter'[o] = (IF HasError(event) THEN "rejected" ELSE "resolved")
                   /\ event.v >= _maxWaitingFor =>
                        /\ \A w \in Versions : _waitingFor'[w] = 0
                        /\ \A w \in Registered :
                             /\ w <= event.v
                             /\ w # event.v => [v |-> w, o |-> _waitingFor[w]] \in sweeping'
          /\ \A c \in ClientIds : (waiter[c] = "pending" /\ waiter'[c] # "pending") =>
               \E h \in Holders(c, _waitingFor, sweeping) :
                 waiter'[c] = (IF HasError(queue[h.key]) THEN "rejected" ELSE "resolved")]_vars

\* both callers waited for event 1 on one promise, registered after event 1
\* was handled; the sweep after event 2 removed the entry and its queue.get
\* settled the promise
C22_Witness ==
    /\ clients[1].pc = "wait" /\ clients[2].pc = "wait"
    /\ clients[1].v = 1 /\ clients[2].v = 1
    /\ clients[1].p = clients[2].p
    /\ waiter[clients[1].p] \in {"resolved", "rejected"}
    /\ Len(log) >= 2 /\ log[1].v = 2
    /\ log[Len(log)].k \in {"resolve", "reject"} /\ log[Len(log)].v = 1


\* C23: poll-loop handle bookkeeping. In every reachable state _waitingP is
\* set only while a run of _waitForEvent is executing or has returned with
\* its then-callback still to run; with no such run _waitingP is null.
C23_WaitingPBookkeeping ==
    _waitingP => \E r \in RunIds : runs[r].pc # "none"


\* a run leaves the loop through `if (this._reallyStop)` although the
\* stopPolling call that set the flag has long returned and its promise is
\* resolved
StaleStop(r) == RunStopCheck(r) /\ _reallyStop /\ stopP = "resolved"

\* C24: the stop flag does not leak. _reallyStop is not left true when no run
\* of the poll loop is in flight, and no run leaves the loop through the
\* stop test for a stopPolling call that was over before the run handled
\* its event.
C24_StopFlagNoLeak ==
    /\ []((\A r \in RunIds : runs[r].pc = "none") => ~_reallyStop)
    /\ [][\A r \in RunIds : ~StaleStop(r)]_vars


\* C25: a waiter is only released on a real apply. When the promise of
\* handledVersion(v) or dispatch is resolved with event v, the applied
\* version is v or more and the reducer's changes of v are in the tables;
\* and after an apply of an event has failed, no `result` or `handled` is
\* emitted and no waiter resolved for it.
C25_ReleasedOnApply ==
    /\ \A c \in ClientIds :
         \/ clients[c].pc = "wait" /\ waiter[clients[c].p] = "resolved"
         \/ clients[c].pc = "done" /\ clients[c].out = "resolved"
         => (getVersion >= clients[c].v /\ InTables(clients[c].v))
    /\ \A i, j \in 1..Len(log) :
         (i < j /\ log[i].k = "applyfail") => log[j].k \notin {"result", "handled", "resolve"}

====
